---------------------------- MODULE Spec2Model ----------------------------
(***************************************************************************)
(* nftimg: src/main.rs (the command line) and src/lib.rs (convert and its  *)
(* pipeline stages).                                                       *)
(*                                                                         *)
(* Strings are sequences of one-character strings.  An image buffer (Mat)  *)
(* is a record of its rows, cols, channels and data.  In the pipeline      *)
(* specification the data of a buffer is the term that produced it (the    *)
(* sequence of library operations applied to the decoded file); in the     *)
(* pixel specifications it is the grid of samples itself.                  *)
(***************************************************************************)
EXTENDS Integers, Sequences, FiniteSets, TLC

VARIABLES
    args,        \* env::args(): the program name followed by the positional arguments
    disk,        \* the file the argument names: decodable or not, and its size
    pc,          \* position in main / convert
    stdout,      \* the lines printed so far
    folder,      \* lib.rs:15
    filename,    \* lib.rs:16
    mat_bgr,     \* lib.rs:19
    mat_lab,     \* lib.rs:21
    mat_0,       \* lib.rs:24, 26
    mat_1,       \* lib.rs:29, 31, 33
    output,      \* lib.rs:37
    path_write,  \* lib.rs:39
    written,     \* the files imwrite has created
    ret,         \* what convert returned
    exit,        \* the exit status of the process
    log,         \* history: the println and the stage calls made, in order
    px           \* the pixel specifications' state (combine / edge inputs and results)

vars == << args, disk, pc, stdout, folder, filename, mat_bgr, mat_lab, mat_0,
           mat_1, output, path_write, written, ret, exit, log, px >>

--------------------------------------------------------------------------
(* Bounds *)

MaxLen == 4
MaxArgs == 2
MaxDim == 2
MaxPixels == 4

--------------------------------------------------------------------------
(* Option<T> *)

None == [some |-> FALSE]
Some(x) == [some |-> TRUE, val |-> x]

--------------------------------------------------------------------------
(* Strings *)

Alphabet == {"a", ".", "/"}
Strings == UNION {[1..n -> Alphabet] : n \in 0..MaxLen}

Str_image_eq == <<"i", "m", "a", "g", "e", "=">>
Str_dot == <<".">>
Str_nft == <<".", "n", "f", "t", ".">>
Str_slash == <<"/">>

DropLast(s, n) == SubSeq(s, 1, Len(s) - n)

RECURSIVE LastIndexOf(_, _)
\* slice::rposition: the index of the last c in s, 0 when there is none
LastIndexOf(s, c) ==
    IF Len(s) = 0 THEN 0
    ELSE IF s[Len(s)] = c THEN Len(s)
    ELSE LastIndexOf(DropLast(s, 1), c)

RECURSIVE ReplaceFirst(_, _, _)
\* str::replacen(from, to, 1): only the first match
ReplaceFirst(s, from, to) ==
    IF Len(s) < Len(from) THEN s
    ELSE IF SubSeq(s, 1, Len(from)) = from
         THEN to \o SubSeq(s, Len(from) + 1, Len(s))
         ELSE <<s[1]>> \o ReplaceFirst(Tail(s), from, to)

RECURSIVE Replace(_, _, _)
\* str::replace(from, to): every non-overlapping match of from, left to right
Replace(s, from, to) ==
    IF Len(s) < Len(from) THEN s
    ELSE IF SubSeq(s, 1, Len(from)) = from
         THEN to \o Replace(SubSeq(s, Len(from) + 1, Len(s)), from, to)
         ELSE <<s[1]>> \o Replace(Tail(s), from, to)

--------------------------------------------------------------------------
(* std::path::Path on Unix: Components, parent, file_name *)

HasRoot(p) == Len(p) > 0 /\ p[1] = "/"

IncludeCurDir(p) ==
    /\ ~HasRoot(p)
    /\ Len(p) >= 1
    /\ p[1] = "."
    /\ (Len(p) = 1 \/ p[2] = "/")

LenBeforeBody(p) ==
    (IF HasRoot(p) THEN 1 ELSE 0) + (IF IncludeCurDir(p) THEN 1 ELSE 0)

\* Components::parse_single_component
ParseSingleComponent(comp) ==
    IF comp = <<".">> THEN "None"
    ELSE IF comp = <<".", ".">> THEN "ParentDir"
    ELSE IF comp = <<>> THEN "None"
    ELSE "Normal"

\* Components::parse_next_component_back
ParseNextComponentBack(p) ==
    LET start == LenBeforeBody(p)
        body == SubSeq(p, start + 1, Len(p))
        i == LastIndexOf(body, "/")
        extra == IF i = 0 THEN 0 ELSE 1
        comp == SubSeq(body, i + 1, Len(body))
    IN [size |-> Len(comp) + extra, comp |-> comp]

RECURSIVE NextBack(_)
\* Components::next_back on a fresh iterator: the last component, what is
\* left of the path in front of it, and the iterator's back state
NextBack(p) ==
    IF Len(p) > LenBeforeBody(p)
    THEN LET c == ParseNextComponentBack(p)
             rest == DropLast(p, c.size)
             k == ParseSingleComponent(c.comp)
         IN IF k # "None"
            THEN [kind |-> k, comp |-> c.comp, rest |-> rest, back |-> "Body"]
            ELSE NextBack(rest)
    ELSE IF HasRoot(p)
         THEN [kind |-> "RootDir", comp |-> <<"/">>, rest |-> DropLast(p, 1), back |-> "Prefix"]
    ELSE IF IncludeCurDir(p)
         THEN [kind |-> "CurDir", comp |-> <<".">>, rest |-> DropLast(p, 1), back |-> "Prefix"]
    ELSE [kind |-> "None", comp |-> <<>>, rest |-> p, back |-> "Done"]

RECURSIVE TrimRight(_)
\* Components::trim_right
TrimRight(p) ==
    IF Len(p) > LenBeforeBody(p)
    THEN LET c == ParseNextComponentBack(p)
         IN IF ParseSingleComponent(c.comp) # "None"
            THEN p
            ELSE TrimRight(DropLast(p, c.size))
    ELSE p

\* Components::as_path of the iterator next_back left behind
AsPath(c) == IF c.back = "Body" THEN TrimRight(c.rest) ELSE c.rest

\* Path::parent
Parent(p) ==
    LET c == NextBack(p)
    IN IF c.kind \in {"Normal", "CurDir", "ParentDir"} THEN Some(AsPath(c)) ELSE None

\* Path::file_name
FileName(p) ==
    LET c == NextBack(p)
    IN IF c.kind = "Normal" THEN Some(c.comp) ELSE None

--------------------------------------------------------------------------
(* opencv::core::Mat in the pipeline: size, channel count, and the term    *)
(* that produced the samples                                               *)

EmptyMat == [rows |-> 0, cols |-> 0, channels |-> 0, data |-> <<>>]
IsEmpty(m) == m.rows = 0 \/ m.cols = 0

SameSize(a, b) == a.rows = b.rows /\ a.cols = b.cols

Apply(m, op) == [m EXCEPT !.data = Append(@, op)]

\* imgcodecs::imread(path, IMREAD_COLOR): the decoded 3-channel image, or an
\* empty Mat (not an Err) when the file is missing or cannot be decoded
imread(d) ==
    IF d.ok
    THEN [rows |-> d.rows, cols |-> d.cols, channels |-> 3, data |-> <<"imread">>]
    ELSE EmptyMat

\* imgproc::cvt_color raises on an empty source or one that has not 3 channels
CvtColorRejects(input) == IsEmpty(input) \/ input.channels # 3

bgr_to_lab(input) == Apply(input, "COLOR_BGR2Lab")

lab_to_bgr(input) == Apply(input, "COLOR_Lab2BGR")

\* a mean-shift that returns the coarser pyramid level instead of the full size
pyr_mean_shift_filtering_pyrdown(input) ==
    [Apply(input, "pyr_mean_shift_filtering")
        EXCEPT !.rows = (@ + 1) \div 2, !.cols = (@ + 1) \div 2]

\* imgproc::pyr_mean_shift_filtering: dst has the size and type of src
pyr_mean_shift_filtering(input) == Apply(input, "pyr_mean_shift_filtering")

segment_colors(input) == pyr_mean_shift_filtering(input)

\* ximgproc::anisotropic_diffusion: dst has the size and type of src
anisotropic_blur(input) == Apply(input, "anisotropic_diffusion")

\* core::split, then channel 0: one plane of the size of the source
gray_from_lab(input) == [Apply(input, "split[0]") EXCEPT !.channels = 1]

\* adaptive_threshold then dilate, on the terms: both keep size and type
EdgedTerm(input) == Apply(Apply(input, "adaptive_threshold"), "dilate")

\* core::bitwise_and with a mask raises unless the mask is single-channel and
\* of the size of the sources
BitwiseAndRejects(base, edge) == ~SameSize(base, edge) \/ edge.channels # 1

CombinedTerm(base, edge) ==
    [base EXCEPT !.data = <<"bitwise_and", base.data, edge.data>>]

--------------------------------------------------------------------------
(* History events *)

Event(stage, returned, success, in, out) ==
    [stage |-> stage, returned |-> returned, success |-> success, in |-> in, out |-> out]

Stages == <<"imread", "bgr_to_lab", "segment_colors", "lab_to_bgr", "anisotropic_blur",
            "gray_from_lab", "grayscaled_to_edged", "combine_base_and_edge", "imwrite">>

RetOk == [ok |-> TRUE, at |-> "convert"]
RetErr(stage) == [ok |-> FALSE, at |-> stage]

--------------------------------------------------------------------------
(* The pixel specifications' idle state *)

PxIdle == [at |-> "idle"]

--------------------------------------------------------------------------
(* Init *)

ProgramName == <<"n", "f", "t", "i", "m", "g">>
Filler == <<"a">>

ArgLists ==
    {<<ProgramName>> \o [i \in 1..n |-> IF i = 1 THEN p ELSE Filler] :
        n \in 0..MaxArgs, p \in Strings}

Disks ==
    {[ok |-> FALSE, rows |-> 0, cols |-> 0]}
    \cup {[ok |-> TRUE, rows |-> r, cols |-> c] : r \in 1..MaxDim, c \in 1..MaxDim}

Init ==
    /\ args \in ArgLists
    /\ disk \in Disks
    /\ pc = "main"
    /\ stdout = <<>>
    /\ folder = None
    /\ filename = None
    /\ mat_bgr = None
    /\ mat_lab = None
    /\ mat_0 = None
    /\ mat_1 = None
    /\ output = None
    /\ path_write = None
    /\ written = {}
    /\ ret = None
    /\ exit = None
    /\ log = <<>>
    /\ px = PxIdle

mats == << mat_bgr, mat_lab, mat_0, mat_1, output >>
paths == << folder, filename, path_write >>

--------------------------------------------------------------------------
(* src/main.rs *)

\* main with the argument count tested as "fewer than two"
Main_TooFewOnly ==
    /\ pc = "main"
    /\ \/ /\ Len(args) < 2
          /\ pc' = "exited"
          /\ exit' = Some(0)
          /\ UNCHANGED << stdout, log >>
       \/ /\ Len(args) >= 2
          /\ stdout' = Append(stdout, Str_image_eq \o args[2])
          /\ log' = Append(log, Event("println", "Ok", TRUE, <<>>, EmptyMat))
          /\ pc' = "convert"
          /\ UNCHANGED exit
    /\ UNCHANGED << args, disk, mats, paths, written, ret, px >>

\* main without its println
Main_NoPrintln ==
    /\ pc = "main"
    /\ \/ /\ Len(args) # 2
          /\ pc' = "exited"
          /\ exit' = Some(0)
       \/ /\ Len(args) = 2
          /\ pc' = "convert"
          /\ UNCHANGED exit
    /\ UNCHANGED << args, disk, mats, paths, written, ret, px, stdout, log >>

\* main.rs:6-9: the argument count, then the image= line
Main ==
    /\ pc = "main"
    /\ \/ /\ Len(args) # 2
          /\ pc' = "exited"
          /\ exit' = Some(0)
          /\ UNCHANGED << stdout, log >>
       \/ /\ Len(args) = 2
          /\ stdout' = Append(stdout, Str_image_eq \o args[2])
          /\ log' = Append(log, Event("println", "Ok", TRUE, <<>>, EmptyMat))
          /\ pc' = "convert"
          /\ UNCHANGED exit
    /\ UNCHANGED << args, disk, mats, paths, written, ret, px >>

\* main.rs:11-13: convert's result becomes the exit status (Err: 1)
MainReturn ==
    /\ pc = "return"
    /\ exit' = Some(IF ret.val.ok THEN 0 ELSE 1)
    /\ pc' = "exited"
    /\ UNCHANGED << args, disk, mats, paths, written, ret, px, stdout, log >>

--------------------------------------------------------------------------
(* src/lib.rs: convert *)

Panic ==
    /\ pc' = "exited"
    /\ exit' = Some(101)

Fail(stage, in) ==
    /\ log' = Append(log, Event(stage, "Err", FALSE, in, EmptyMat))
    /\ ret' = Some(RetErr(stage))
    /\ pc' = "return"

\* lib.rs:14-16: parent().unwrap() and file_name().unwrap()
Convert_paths ==
    /\ pc = "convert"
    /\ LET path == args[2]
       IN \/ /\ ~Parent(path).some
             /\ Panic
             /\ UNCHANGED << folder, filename >>
          \/ /\ Parent(path).some
             /\ ~FileName(path).some
             /\ folder' = Parent(path)
             /\ Panic
             /\ UNCHANGED filename
          \/ /\ Parent(path).some
             /\ FileName(path).some
             /\ folder' = Parent(path)
             /\ filename' = FileName(path)
             /\ pc' = "imread"
             /\ UNCHANGED exit
    /\ UNCHANGED << args, disk, mats, path_write, written, ret, px, stdout, log >>

\* lib.rs:19
Convert_imread ==
    /\ pc = "imread"
    /\ \/ /\ Fail("imread", <<>>)
          /\ UNCHANGED mat_bgr
       \/ /\ mat_bgr' = Some(imread(disk))
          /\ log' = Append(log, Event("imread", "Ok", disk.ok, <<>>, imread(disk)))
          /\ pc' = "bgr_to_lab"
          /\ UNCHANGED ret
    /\ UNCHANGED << args, disk, mat_lab, mat_0, mat_1, output, paths, written, exit, px, stdout >>

\* lib.rs:21
Convert_bgr_to_lab ==
    /\ pc = "bgr_to_lab"
    /\ LET in == mat_bgr.val
       IN \/ /\ Fail("bgr_to_lab", <<in>>)
             /\ UNCHANGED mat_lab
          \/ /\ ~CvtColorRejects(in)
             /\ mat_lab' = Some(bgr_to_lab(in))
             /\ log' = Append(log, Event("bgr_to_lab", "Ok", TRUE, <<in>>, bgr_to_lab(in)))
             /\ pc' = "segment_colors"
             /\ UNCHANGED ret
    /\ UNCHANGED << args, disk, mat_bgr, mat_0, mat_1, output, paths, written, exit, px, stdout >>

\* a segmenter that filters its source in place
Convert_segment_colors_inplace ==
    /\ pc = "segment_colors"
    /\ LET in == mat_lab.val
       IN \/ /\ Fail("segment_colors", <<in>>)
             /\ UNCHANGED << mat_0, mat_lab >>
          \/ /\ mat_0' = Some(segment_colors(in))
             /\ mat_lab' = Some(segment_colors(in))
             /\ log' = Append(log, Event("segment_colors", "Ok", TRUE, <<in>>, segment_colors(in)))
             /\ pc' = "lab_to_bgr"
             /\ UNCHANGED ret
    /\ UNCHANGED << args, disk, mat_bgr, mat_1, output, paths, written, exit, px, stdout >>

\* lib.rs:24
Convert_segment_colors ==
    /\ pc = "segment_colors"
    /\ LET in == mat_lab.val
       IN \/ /\ Fail("segment_colors", <<in>>)
             /\ UNCHANGED mat_0
          \/ /\ mat_0' = Some(segment_colors(in))
             /\ log' = Append(log, Event("segment_colors", "Ok", TRUE, <<in>>, segment_colors(in)))
             /\ pc' = "lab_to_bgr"
             /\ UNCHANGED ret
    /\ UNCHANGED << args, disk, mat_bgr, mat_lab, mat_1, output, paths, written, exit, px, stdout >>

\* lib.rs:26
Convert_lab_to_bgr ==
    /\ pc = "lab_to_bgr"
    /\ LET in == mat_0.val
       IN \/ /\ Fail("lab_to_bgr", <<in>>)
             /\ UNCHANGED mat_0
          \/ /\ ~CvtColorRejects(in)
             /\ mat_0' = Some(lab_to_bgr(in))
             /\ log' = Append(log, Event("lab_to_bgr", "Ok", TRUE, <<in>>, lab_to_bgr(in)))
             /\ pc' = "anisotropic_blur"
             /\ UNCHANGED ret
    /\ UNCHANGED << args, disk, mat_bgr, mat_lab, mat_1, output, paths, written, exit, px, stdout >>

\* lib.rs:29
Convert_anisotropic_blur ==
    /\ pc = "anisotropic_blur"
    /\ LET in == mat_lab.val
       IN \/ /\ Fail("anisotropic_blur", <<in>>)
             /\ UNCHANGED mat_1
          \/ /\ mat_1' = Some(anisotropic_blur(in))
             /\ log' = Append(log, Event("anisotropic_blur", "Ok", TRUE, <<in>>, anisotropic_blur(in)))
             /\ pc' = "gray_from_lab"
             /\ UNCHANGED ret
    /\ UNCHANGED << args, disk, mat_bgr, mat_lab, mat_0, output, paths, written, exit, px, stdout >>

\* lib.rs:31
Convert_gray_from_lab ==
    /\ pc = "gray_from_lab"
    /\ LET in == mat_1.val
       IN \/ /\ Fail("gray_from_lab", <<in>>)
             /\ UNCHANGED mat_1
          \/ /\ mat_1' = Some(gray_from_lab(in))
             /\ log' = Append(log, Event("gray_from_lab", "Ok", TRUE, <<in>>, gray_from_lab(in)))
             /\ pc' = "grayscaled_to_edged"
             /\ UNCHANGED ret
    /\ UNCHANGED << args, disk, mat_bgr, mat_lab, mat_0, output, paths, written, exit, px, stdout >>

\* lib.rs:33
Convert_grayscaled_to_edged ==
    /\ pc = "grayscaled_to_edged"
    /\ LET in == mat_1.val
       IN \/ /\ Fail("grayscaled_to_edged", <<in>>)
             /\ UNCHANGED mat_1
          \/ /\ mat_1' = Some(EdgedTerm(in))
             /\ log' = Append(log, Event("grayscaled_to_edged", "Ok", TRUE, <<in>>, EdgedTerm(in)))
             /\ pc' = "combine_base_and_edge"
             /\ UNCHANGED ret
    /\ UNCHANGED << args, disk, mat_bgr, mat_lab, mat_0, output, paths, written, exit, px, stdout >>

\* lib.rs:37
Convert_combine_base_and_edge ==
    /\ pc = "combine_base_and_edge"
    /\ LET base == mat_0.val
           edge == mat_1.val
       IN \/ /\ Fail("combine_base_and_edge", <<base, edge>>)
             /\ UNCHANGED output
          \/ /\ ~BitwiseAndRejects(base, edge)
             /\ output' = Some(CombinedTerm(base, edge))
             /\ log' = Append(log, Event("combine_base_and_edge", "Ok", TRUE, <<base, edge>>,
                                         CombinedTerm(base, edge)))
             /\ pc' = "imwrite"
             /\ UNCHANGED ret
    /\ UNCHANGED << args, disk, mat_bgr, mat_lab, mat_0, mat_1, paths, written, exit, px, stdout >>

\* the name with only its first "." replaced
OutputFileName_first(name) == ReplaceFirst(name, Str_dot, Str_nft)

\* lib.rs:39: filename.replace(".", ".nft.")
OutputFileName(name) == Replace(name, Str_dot, Str_nft)

\* lib.rs:39: format!("{}/{}", folder, ...)
PathWrite(dir, name) == dir \o Str_slash \o OutputFileName(name)

\* lib.rs:39-43.  imwrite returns Result<bool>: Err, Ok(false) when the file
\* could not be written, Ok(true) when it was; the bool is dropped
Convert_imwrite ==
    /\ pc = "imwrite"
    /\ LET in == output.val
           target == PathWrite(folder.val, filename.val)
       IN /\ path_write' = Some(target)
          /\ \/ /\ Fail("imwrite", <<in>>)
                /\ UNCHANGED written
             \/ /\ log' = Append(log, Event("imwrite", "Ok", FALSE, <<in>>, EmptyMat))
                /\ ret' = Some(RetOk)
                /\ pc' = "return"
                /\ UNCHANGED written
             \/ /\ log' = Append(log, Event("imwrite", "Ok", TRUE, <<in>>, in))
                /\ written' = written \cup {[path |-> target, img |-> in]}
                /\ ret' = Some(RetOk)
                /\ pc' = "return"
    /\ UNCHANGED << args, disk, mats, folder, filename, exit, px, stdout >>

Next ==
    \/ Main
    \/ MainReturn
    \/ Convert_paths
    \/ Convert_imread
    \/ Convert_bgr_to_lab
    \/ Convert_segment_colors
    \/ Convert_lab_to_bgr
    \/ Convert_anisotropic_blur
    \/ Convert_gray_from_lab
    \/ Convert_grayscaled_to_edged
    \/ Convert_combine_base_and_edge
    \/ Convert_imwrite

Spec == Init /\ [][Next]_vars

--------------------------------------------------------------------------
(* Pixel level: a Mat whose data is the row-major sequence of its samples  *)
(* (an integer per pixel for one channel, a triple for three)              *)

max_binary_value == 255
blockSize == 9
delta == 9
ksize == 3
iterations == 1

GrayVals == {0, 9, 100, 255}
MaskVals == {0, 1, 255}
BgrVals == {<<18, 52, 86>>, <<255, 0, 7>>}
Black == <<0, 0, 0>>

Dims == {d \in (1..MaxPixels) \X (1..MaxPixels) : d[1] * d[2] <= MaxPixels}

Images(vals, ch) ==
    UNION {{[rows |-> d[1], cols |-> d[2], channels |-> ch, data |-> x] :
                x \in [1..(d[1] * d[2]) -> vals]} : d \in Dims}

At(m, r, c) == m.data[(r - 1) * m.cols + c]
RowOf(m, i) == ((i - 1) \div m.cols) + 1
ColOf(m, i) == ((i - 1) % m.cols) + 1

\* BORDER_REPLICATE: aaaaaa|abcdefgh|hhhhhhh
Replicate(i, n) == IF i < 1 THEN 1 ELSE IF i > n THEN n ELSE i

\* BORDER_REFLECT: fedcba|abcdefgh|hgfedcb
Reflect(i, n) == IF i < 1 THEN 1 - i ELSE IF i > n THEN 2 * n + 1 - i ELSE i

RECURSIVE BoxSum(_, _, _, _, _)
\* the sum of the size x size window centred on (r, c), offsets k..size*size-1
BoxSum(m, r, c, size, k) ==
    IF k = size * size THEN 0
    ELSE At(m, Replicate(r + (k \div size) - (size \div 2), m.rows),
               Replicate(c + (k % size) - (size \div 2), m.cols))
         + BoxSum(m, r, c, size, k + 1)

\* boxFilter, normalized, 8-bit: the window's mean rounded to the nearest integer
BoxMean(m, r, c, size) ==
    (2 * BoxSum(m, r, c, size, 0) + size * size) \div (2 * size * size)

\* imgproc::adaptive_threshold(ADAPTIVE_THRESH_MEAN_C, THRESH_BINARY):
\* dst = maxValue where src - mean > -delta, else 0
adaptive_threshold(src, maxValue, size, d) ==
    [src EXCEPT !.data =
        [i \in 1..(src.rows * src.cols) |->
            IF src.data[i] - BoxMean(src, RowOf(src, i), ColOf(src, i), size) > -d
            THEN maxValue ELSE 0]]

Max(S) == CHOOSE x \in S : \A y \in S : y <= x
Min(S) == CHOOSE x \in S : \A y \in S : x <= y

Window(src, i, size) ==
    {At(src, Reflect(RowOf(src, i) + dr, src.rows), Reflect(ColOf(src, i) + dc, src.cols)) :
        dr \in (-(size \div 2))..(size \div 2), dc \in (-(size \div 2))..(size \div 2)}

RECURSIVE erode(_, _, _)
\* imgproc::erode: the minimum over the window
erode(src, size, n) ==
    IF n = 0 THEN src
    ELSE erode([src EXCEPT !.data =
                   [i \in 1..(src.rows * src.cols) |-> Min(Window(src, i, size))]],
               size, n - 1)

RECURSIVE dilate(_, _, _)
\* imgproc::dilate, MORPH_RECT size x size, anchor at the centre,
\* BORDER_REFLECT: the maximum over the window, n times
dilate(src, size, n) ==
    IF n = 0 THEN src
    ELSE dilate([src EXCEPT !.data =
                    [i \in 1..(src.rows * src.cols) |-> Max(Window(src, i, size))]],
                size, n - 1)

\* lib.rs:77-87
Thresholded(input) == adaptive_threshold(input, max_binary_value, blockSize, delta)

\* lib.rs:76-104
grayscaled_to_edged(input) == dilate(Thresholded(input), ksize, iterations)

RECURSIVE BitAnd(_, _)
BitAnd(a, b) ==
    IF a = 0 \/ b = 0 THEN 0
    ELSE (a % 2) * (b % 2) + 2 * BitAnd(a \div 2, b \div 2)

Zeros(m) == [m EXCEPT !.data = [i \in 1..(m.rows * m.cols) |-> Black]]

\* core::bitwise_and(src1, src2, dst, mask): dst is reallocated and zeroed
\* unless it already has the sources' size and type; then
\* dst(p) = src1(p) & src2(p) wherever mask(p) != 0
bitwise_and(src1, src2, dst, mask) ==
    LET d0 == IF SameSize(dst, src1) /\ dst.channels = src1.channels THEN dst ELSE Zeros(src1)
    IN [d0 EXCEPT !.data =
           [i \in 1..(src1.rows * src1.cols) |->
               IF mask.data[i] # 0
               THEN [k \in 1..3 |-> BitAnd(src1.data[i][k], src2.data[i][k])]
               ELSE d0.data[i]]]

\* the AND taken without the mask
combine_base_and_edge_unmasked(base, edge) ==
    bitwise_and(base, base, EmptyMat, [edge EXCEPT !.data = [i \in DOMAIN @ |-> 255]])

\* lib.rs:150-157: output starts as Mat::default()
combine_base_and_edge(base, edge) == bitwise_and(base, base, EmptyMat, edge)

\* the pipeline's variables, at rest in the pixel specifications
PipelineIdle ==
    /\ args = <<ProgramName>>
    /\ disk = [ok |-> FALSE, rows |-> 0, cols |-> 0]
    /\ pc = "pixels"
    /\ stdout = <<>>
    /\ folder = None
    /\ filename = None
    /\ mat_bgr = None
    /\ mat_lab = None
    /\ mat_0 = None
    /\ mat_1 = None
    /\ output = None
    /\ path_write = None
    /\ written = {}
    /\ ret = None
    /\ exit = None
    /\ log = <<>>

pipeline == << args, disk, pc, stdout, mats, paths, written, ret, exit, log >>

InitCombine ==
    /\ PipelineIdle
    /\ \E base \in Images(BgrVals, 3) :
         \E edge \in {e \in Images(MaskVals, 1) : SameSize(e, base)} :
            px = [at |-> "combine", base |-> base, edge |-> edge, out |-> EmptyMat]

\* a call of combine_base_and_edge(&base, &edge)
Call_combine_base_and_edge ==
    /\ px.at = "combine"
    /\ px' = [px EXCEPT !.at = "combined", !.out = combine_base_and_edge(px.base, px.edge)]
    /\ UNCHANGED pipeline

SpecCombine == InitCombine /\ [][Call_combine_base_and_edge]_vars

InitEdge ==
    /\ PipelineIdle
    /\ \E input \in Images(GrayVals, 1) :
         px = [at |-> "gray", input |-> input, edges |-> EmptyMat, out |-> EmptyMat]

\* a call of grayscaled_to_edged(&input); edges is its local after the threshold
Call_grayscaled_to_edged ==
    /\ px.at = "gray"
    /\ px' = [px EXCEPT !.at = "edged",
                        !.edges = Thresholded(px.input),
                        !.out = grayscaled_to_edged(px.input)]
    /\ UNCHANGED pipeline

SpecEdge == InitEdge /\ [][Call_grayscaled_to_edged]_vars

--------------------------------------------------------------------------
(* Vocabulary of the properties *)

Marker == <<".", "n", "f", "t">>

CountOf(s, c) == Cardinality({i \in 1..Len(s) : s[i] = c})

\* the part of a path after its last "/"
LastSegment(s) == SubSeq(s, LastIndexOf(s, "/") + 1, Len(s))

FirstDot(s) == CHOOSE i \in 1..Len(s) : s[i] = "." /\ \A j \in 1..(i - 1) : s[j] # "."

\* the marker put in front of the first "." only
InsertBeforeFirstDot(s) ==
    IF CountOf(s, ".") = 0 THEN s
    ELSE SubSeq(s, 1, FirstDot(s) - 1) \o Marker \o SubSeq(s, FirstDot(s), Len(s))

RECURSIVE InsertBeforeEveryDot(_)
\* the marker put in front of each "."
InsertBeforeEveryDot(s) ==
    IF s = <<>> THEN <<>>
    ELSE (IF Head(s) = "." THEN Marker ELSE <<>>) \o <<Head(s)>> \o InsertBeforeEveryDot(Tail(s))

RECURSIVE Segments(_)
\* a path cut at its "/"s, first segment first
Segments(p) ==
    IF LastIndexOf(p, "/") = 0 THEN <<p>>
    ELSE Append(Segments(SubSeq(p, 1, LastIndexOf(p, "/") - 1)), LastSegment(p))

RECURSIVE Named(_)
\* the segments that name something: not empty, not "."
Named(segs) ==
    IF segs = <<>> THEN <<>>
    ELSE (IF Head(segs) \in {<<>>, <<".">>} THEN <<>> ELSE <<Head(segs)>>) \o Named(Tail(segs))

\* the directory a path's file lies in: from the root or from the working
\* directory, and the names leading to it
DirectoryOf(p) ==
    LET names == Named(Segments(p))
    IN [absolute |-> HasRoot(p), names |-> DropLast(names, 1)]

StageEvents == {i \in 1..Len(log) : log[i].stage # "println"}
Failed(i) == ~log[i].success
Exited == pc = "exited"
OneArgument == Len(args) = 2
ImageLine == Str_image_eq \o args[2]
AllStagesSucceeded ==
    /\ Len(log) = Len(Stages) + 1
    /\ \A i \in 1..Len(log) : log[i].success

Called(stage) == \E i \in 1..Len(log) : log[i].stage = stage
CallOf(stage) == log[CHOOSE i \in 1..Len(log) : log[i].stage = stage]
HasSizeOfDisk(m) == m.some => (m.val.rows = disk.rows /\ m.val.cols = disk.cols)

--------------------------------------------------------------------------
(* C1: the output filename is the input filename with ".nft" inserted      *)
(* immediately before the first "." only; later "."s are left as they are. *)
C1_FirstDotOnly ==
    path_write.some => LastSegment(path_write.val) = InsertBeforeFirstDot(filename.val)

(* C1, as the code has it: the output filename is the input filename with  *)
(* ".nft" inserted immediately before EVERY "." (each "." becomes          *)
(* ".nft."); with a single "." that is the insertion before the first.     *)
C1_EveryDot ==
    path_write.some => LastSegment(path_write.val) = InsertBeforeEveryDot(filename.val)

C1_Witness ==
    /\ path_write.some
    /\ CountOf(filename.val, ".") >= 2
    /\ \E f \in written : f.path = path_write.val

(* C2: for every path convert accepts, the directory part of the path      *)
(* handed to imwrite denotes the directory of the input file.              *)
C2_SameDirectory ==
    path_write.some => DirectoryOf(path_write.val) = DirectoryOf(args[2])

(* C3: with an argument count other than one, the process exits 0, prints  *)
(* no image= line, runs no stage and creates no file.                      *)
C3_WrongArgumentCount ==
    ~OneArgument =>
        /\ stdout = <<>>
        /\ log = <<>>
        /\ written = {}
        /\ path_write = None
        /\ pc \in {"main", "exited"}
        /\ Exited => exit = Some(0)

C3_Witness == Len(args) > 2 /\ Exited /\ exit = Some(0)

(* C4: once a stage has failed no later stage gets to do its work, no     *)
(* file is written, convert returns an error and the exit status is        *)
(* non-zero; on a path that names no image the status is non-zero and no   *)
(* file is created.  (A stage fails when it returns Err, when the load     *)
(* yields no image, or when the write creates no file.  The claim's "no    *)
(* later stage runs" is taken in its weaker reading: a later stage may be  *)
(* called as long as it fails too.)                                        *)
C4_FailureAborts ==
    /\ \A i \in StageEvents :
          Failed(i) =>
             /\ \A j \in (i + 1)..Len(log) : Failed(j)
             /\ written = {}
             /\ ret.some => ~ret.val.ok
             /\ Exited => exit # Some(0)
    /\ (OneArgument /\ ~disk.ok) => (written = {} /\ (Exited => exit # Some(0)))

(* C5: with exactly one argument the image= line is printed exactly once,  *)
(* before the load; and when every stage succeeds the process exits 0      *)
(* with the output file written.                                           *)
C5_PrintThenProcess ==
    OneArgument =>
        /\ pc = "main" => (stdout = <<>> /\ log = <<>>)
        /\ pc # "main" =>
              /\ stdout = <<ImageLine>>
              /\ log[1].stage = "println"
              /\ \A i \in 2..Len(log) : log[i].stage # "println"
        /\ (Exited /\ AllStagesSucceeded) =>
              /\ exit = Some(0)
              /\ \E f \in written : f.path = path_write.val

C5_Witness == OneArgument /\ Exited /\ AllStagesSucceeded /\ exit = Some(0)

(* C8: every buffer a stage returns has the width and height of the        *)
(* loaded image, the base and the mask reaching the compositor have equal  *)
(* sizes, and so has the image written.                                    *)
C8_SizePreserved ==
    /\ HasSizeOfDisk(mat_bgr)
    /\ HasSizeOfDisk(mat_lab)
    /\ HasSizeOfDisk(mat_0)
    /\ HasSizeOfDisk(mat_1)
    /\ HasSizeOfDisk(output)
    /\ Called("combine_base_and_edge") =>
          SameSize(CallOf("combine_base_and_edge").in[1], CallOf("combine_base_and_edge").in[2])
    /\ \A f \in written : f.img.rows = disk.rows /\ f.img.cols = disk.cols

C8_Witness ==
    /\ \E f \in written : f.img.rows = 2 /\ f.img.cols = 1
    /\ Exited

(* C9: no stage changes the buffer it reads: the loaded image and the Lab  *)
(* image stay what the stage that made them returned, the diffusion reads  *)
(* the Lab image the segmenter read, and compositing leaves the base and   *)
(* the mask as they were.                                                  *)
C9_InputsUnchanged ==
    /\ mat_bgr.some => mat_bgr.val = CallOf("imread").out
    /\ mat_lab.some => mat_lab.val = CallOf("bgr_to_lab").out
    /\ Called("anisotropic_blur") =>
          /\ CallOf("anisotropic_blur").in = CallOf("segment_colors").in
          /\ CallOf("anisotropic_blur").in = <<CallOf("bgr_to_lab").out>>
    /\ output.some =>
          /\ mat_0.val = CallOf("lab_to_bgr").out
          /\ mat_1.val = CallOf("grayscaled_to_edged").out
          /\ CallOf("combine_base_and_edge").in = <<mat_0.val, mat_1.val>>

C9_Witness == output.some /\ Called("imwrite")

(* C10: whatever the single argument, convert ends by returning Ok or an   *)
(* Err: the process never panics while taking the path apart.              *)
C10_NeverPanics == exit # Some(101)

(* C6: each pixel of the composite is the base pixel where the mask is     *)
(* non-zero and black where it is zero; the size is the base's.            *)
C6_Masked ==
    px.at = "combined" =>
        /\ SameSize(px.out, px.base)
        /\ px.out.channels = px.base.channels
        /\ \A i \in 1..(px.base.rows * px.base.cols) :
              px.out.data[i] = IF px.edge.data[i] # 0 THEN px.base.data[i] ELSE Black

C6_Witness ==
    /\ px.at = "combined"
    /\ \E i, j \in DOMAIN px.edge.data :
          /\ px.edge.data[i] = 0
          /\ px.out.data[i] = Black
          /\ px.edge.data[j] = 1
          /\ px.out.data[j] = px.base.data[j]

(* C7: the mask grayscaled_to_edged returns holds only 0 and 255, and      *)
(* every pixel the threshold set to 255 is 255 after the dilation.         *)
C7_BinaryAndGrown ==
    px.at = "edged" =>
        /\ SameSize(px.out, px.input)
        /\ \A i \in 1..(px.input.rows * px.input.cols) :
              /\ px.out.data[i] \in {0, 255}
              /\ px.edges.data[i] = 255 => px.out.data[i] = 255

C7_Witness ==
    /\ px.at = "edged"
    /\ \E i, j \in DOMAIN px.out.data :
          /\ px.edges.data[i] = 0
          /\ px.out.data[i] = 255
          /\ px.out.data[j] = 0

==========================================================================
